---- MODULE Spec2Model ----
(***************************************************************************)
(* Opus codec wrappers of rustpbx (src/media/codecs/opus.rs).              *)
(*                                                                         *)
(* Spec        : one codec instance, constructed by OpusDecoder::new or    *)
(*               OpusEncoder::new and then driven by decode / encode.      *)
(* SpecThreads : one codec instance moved, lent and shared between         *)
(*               threads under the access each method's receiver demands.  *)
(*                                                                         *)
(* The native codec (audiopus / libopus) is the environment: what it       *)
(* reports and what it writes into the buffer it is handed is chosen       *)
(* nondeterministically among the outcomes its interface allows.           *)
(***************************************************************************)
EXTENDS Integers, Sequences, FiniteSets

VARIABLES
    kind,         \* "none" | "decoder" | "encoder": the instance that exists
    core,         \* configuration of the native codec: [rate, channels]
    sample_rate,  \* field sample_rate of the instance
    channels,     \* field channels of the instance
    calls,        \* decode/encode calls made on the instance so far
    op,           \* last operation: "init" | "new" | "decode" | "encode"
    input,        \* argument of the last operation
    newRes,       \* result of the last constructor call: "none" | "Ok" | "Err"
    handed,       \* sample buffer handed to the native encoder
    coreRes,      \* what the native codec call reported: [ok, len, err]
    coreBuf,      \* the output buffer as the native codec call left it
    out,          \* buffer returned by decode / encode
    owner,        \* thread that owns the instance
    sharedRefs,   \* threads holding a shared reference (&T)
    mutRef,       \* the thread holding an exclusive reference (&mut T), if any: {} or {t}
    calling,      \* threads inside decode / encode
    reading       \* threads inside sample_rate() / channels()

codecVars  == <<kind, core, sample_rate, channels, calls, op, input, newRes,
                handed, coreRes, coreBuf, out>>
threadVars == <<owner, sharedRefs, mutRef, calling, reading>>
vars       == <<codecVars, threadVars>>

---------------------------------------------------------------------------
(* Bounds of the model *)

\* decode/encode calls made on one instance
MaxCalls == 2
\* distinct signals the native decoder may produce / the caller may encode
NumSignals == 1
\* threads that may hold or borrow the instance
NumThreads == 3

---------------------------------------------------------------------------
(* Program constants *)

I16Min == -32768
I16Max == 32767
\* scratch buffer of decode
MaxSamples == 11520
\* rate selected by the `_ =>` arm of the sample-rate match
DefaultRate == 48000

\* SampleRate values of the native codec
SupportedRates == {8000, 12000, 16000, 24000, 48000}

\* sample_rate arguments tried: the supported ones and others a u32 can hold
RateArgs == SupportedRates \cup {44100}
\* channels arguments tried (u16)
ChannelArgs == {0, 1, 2, 3}

\* 16-bit sample values the signals are built from
Vals == <<-32768, -1, 0, 1, 32767, -32767, 2>>

\* longest Opus packet, 120 ms, in units of 2.5 ms
MaxFrameUnits == 48
\* Opus packet durations in units of 2.5 ms: 2.5 ms, 20 ms, 120 ms
FrameUnits == {1, 8, MaxFrameUnits}
\* Opus frame durations an encoder accepts, in units of 2.5 ms
EncodeUnits == {1, 2, 4, 8, 16, 24, 32, 40, 48}

NoCore == [rate |-> 0, channels |-> 0]
NoRes  == [ok |-> FALSE, len |-> 0, err |-> "none"]

---------------------------------------------------------------------------
(* Integer arithmetic of the target *)

WrapI16(x) == ((x + 32768) % 65536) - 32768
I32Max == 2147483647
I32Min == -I32Max - 1
WrapI32(x) == IF x > I32Max THEN I32Min + (x - I32Max - 1)
              ELSE IF x < I32Min THEN I32Max - (I32Min - x - 1)
              ELSE x

\* `as i32` of an i16, `as i16` of an i32
AsI32(x) == x
AsI16(x) == WrapI16(x)

\* i32 addition and division (quotient truncated toward zero)
AddI32(a, b) == WrapI32(a + b)
TruncDiv(a, b) == IF a >= 0 THEN a \div b ELSE -((-a) \div b)
DivI32(a, b) == WrapI32(TruncDiv(a, b))

\* Vec::truncate
Truncate(buf, n) == IF n >= Len(buf) THEN buf ELSE SubSeq(buf, 1, n)

\* vec![0; n]
Zeros(n) == [i \in 1..n |-> 0]

---------------------------------------------------------------------------
(* Constructors *)

\* `if channels == 1 { Mono } else { Stereo }`, as the channel count of the codec
ChannelsEnum(ch) == IF ch = 1 THEN 1 ELSE 2

\* `match sample_rate { ... _ => Hz48000 }`, as the rate of the codec
SampleRateEnumLowest(rate) == IF rate \in SupportedRates THEN rate ELSE 8000
SampleRateEnum(rate) == IF rate \in SupportedRates THEN rate ELSE DefaultRate

\* channels field of a decoder: `if matches!(channels, Mono) { 1 } else { 2 }`
DecoderChannelsRaw(ch) == ch
DecoderChannels(ch) == IF ChannelsEnum(ch) = 1 THEN 1 ELSE 2

\* channels field of an encoder: the argument as given
EncoderChannels(ch) == ch

\* `OpusDecoderCore::new(..).map_err(..)?` / `OpusEncoderCore::new(..).map_err(..)?`
NewResult(coreOk) == IF coreOk THEN "Ok" ELSE "Err"

NewCodec(k, rate, ch, coreOk, fieldCh) ==
    /\ op' = "new"
    /\ input' = [rate |-> rate, channels |-> ch]
    /\ newRes' = NewResult(coreOk)
    /\ IF NewResult(coreOk) = "Ok"
         THEN /\ kind' = k
              /\ core' = [rate |-> SampleRateEnum(rate), channels |-> ChannelsEnum(ch)]
              /\ sample_rate' = rate
              /\ channels' = fieldCh
         ELSE UNCHANGED <<kind, core, sample_rate, channels>>
    /\ coreRes' = [ok |-> coreOk, len |-> 0, err |-> IF coreOk THEN "none" ELSE "AllocFail"]
    /\ UNCHANGED <<calls, handed, coreBuf, out>>
    /\ UNCHANGED threadVars

NewDecoder ==
    \E rate \in RateArgs, ch \in ChannelArgs, coreOk \in BOOLEAN :
        /\ kind = "none"
        /\ NewCodec("decoder", rate, ch, coreOk, DecoderChannels(ch))

NewEncoder ==
    \E rate \in RateArgs, ch \in ChannelArgs, coreOk \in BOOLEAN :
        /\ kind = "none"
        /\ NewCodec("encoder", rate, ch, coreOk, EncoderChannels(ch))

---------------------------------------------------------------------------
(* Native codec: what it may report and write *)

Signals == 0..(NumSignals - 1)

\* sample j (1-based) of signal sig, decoded with ch interleaved channels; the stereo
\* signals run through every (L, R) pair of Vals
CoreSample(ch, sig, j) ==
    LET k == (j - 1) \div ch
        c == (j - 1) % ch
    IN IF c = 0 THEN Vals[((k + sig) % Len(Vals)) + 1]
                ELSE Vals[(((k \div Len(Vals)) + sig) % Len(Vals)) + 1]

\* RTP payloads tried: empty, malformed, and well-formed packets of each duration
Packets ==
    {[kind |-> "empty", units |-> 0, sig |-> 0], [kind |-> "malformed", units |-> 0, sig |-> 0]}
    \cup [kind : {"audio"}, units : FrameUnits, sig : Signals]

\* `self.decoder.decode(Some(data), &mut output, false)`: Err for a payload that is no
\* Opus packet or does not fit the buffer, else Ok(samples per channel) with that
\* many interleaved frames written at the front of output
CoreDecode(c, packet, output) ==
    LET cap    == Len(output) \div c.channels
        frames == (c.rate \div 400) * packet.units
    IN IF packet.kind # "audio"
         THEN [ok |-> FALSE, len |-> 0, err |-> "InvalidPacket", buf |-> output]
       ELSE IF frames > cap
         THEN [ok |-> FALSE, len |-> 0, err |-> "BufferTooSmall", buf |-> output]
       ELSE [ok |-> TRUE, len |-> frames, err |-> "none",
             buf |-> [i \in 1..Len(output) |->
                        IF i <= frames * c.channels
                          THEN CoreSample(c.channels, packet.sig, i)
                          ELSE output[i]]]

\* byte i of an encoded packet (never 0, the fill of the output buffer)
PacketByte(i) == ((i * 37) % 255) + 1

\* packet sizes the native encoder may need for a frame
NeedSizes == {1, 3, 25, 50, 130}

\* `self.encoder.encode(samples, &mut output)`: Err for a frame size the codec does not
\* accept or a packet that does not fit output, else Ok(packet length) with the packet
\* written at the front of output
CoreEncode(c, pcm, output, need) ==
    LET frame == Len(pcm) \div c.channels
        valid == \E u \in EncodeUnits : frame = (c.rate \div 400) * u
    IN IF ~valid
         THEN [ok |-> FALSE, len |-> 0, err |-> "BadArg", buf |-> output]
       ELSE IF need > Len(output)
         THEN [ok |-> FALSE, len |-> 0, err |-> "BufferTooSmall", buf |-> output]
       ELSE [ok |-> TRUE, len |-> need, err |-> "none",
             buf |-> [i \in 1..Len(output) |->
                        IF i <= need THEN PacketByte(i) ELSE output[i]]]

---------------------------------------------------------------------------
(* OpusDecoder::decode *)

\* one chunk of the downmix: `((chunk[0] as i32 + chunk[1] as i32) / 2) as i16`
DownmixPairI16(l, r) == TruncDiv(WrapI16(l + r), 2)
DownmixPair(l, r) == AsI16(DivI32(AddI32(AsI32(l), AsI32(r)), 2))

\* `output.chunks_exact(2).map(..).collect()`
Downmix(buf) == [k \in 1..(Len(buf) \div 2) |-> DownmixPair(buf[2 * k - 1], buf[2 * k])]

\* the Ok(len) arm
OnDecodeOk(output, len, ch) ==
    LET total_samples == len * ch
        truncated     == Truncate(output, total_samples)
    IN IF ch = 2 THEN Downmix(truncated) ELSE truncated

\* the Err(_) arm
OnDecodeErrScratch(output) == output
OnDecodeErr(output) == <<>>

Decode ==
    \E packet \in Packets :
        /\ kind = "decoder"
        /\ calls < MaxCalls
        /\ \E output \in {Zeros(MaxSamples)} : \E r \in {CoreDecode(core, packet, output)} :
              /\ coreRes' = [ok |-> r.ok, len |-> r.len, err |-> r.err]
              /\ coreBuf' = r.buf
              /\ out' = IF r.ok THEN OnDecodeOk(r.buf, r.len, channels)
                                ELSE OnDecodeErr(r.buf)
        /\ op' = "decode"
        /\ input' = packet
        /\ calls' = calls + 1
        /\ UNCHANGED <<kind, core, sample_rate, channels, newRes, handed>>
        /\ UNCHANGED threadVars

---------------------------------------------------------------------------
(* OpusEncoder::encode *)

\* `samples.iter().flat_map(|&s| vec![s, s]).collect()`
Duplicate(samples) == [i \in 1..(2 * Len(samples)) |-> samples[(i + 1) \div 2]]

\* the buffer encode passes to encode_stereo
Handed(samples, ch) == IF ch = 2 THEN Duplicate(samples) ELSE samples

\* `vec![0u8; samples.len()]` of encode_stereo
OutputCapacityFixed(samples) == 2 * Len(samples)
OutputCapacity(samples) == Len(samples)

\* the Ok(len) arm of encode_stereo
OnEncodeOkWhole(output, len) == output
OnEncodeOk(output, len) == Truncate(output, len)

\* the Err(_) arm of encode_stereo
OnEncodeErr(output) == <<>>

\* PCM buffers tried: lengths that are and are not frame sizes of the codec
EncodeLens == {0, 1, 20, 30, 40, 60, 120}
PcmInputs == {[i \in 1..n |-> Vals[((i - 1 + sig) % Len(Vals)) + 1]] :
                n \in EncodeLens, sig \in Signals}

Encode ==
    \E samples \in PcmInputs, need \in NeedSizes :
        /\ kind = "encoder"
        /\ calls < MaxCalls
        /\ \E h \in {Handed(samples, channels)} :
           \E output \in {Zeros(OutputCapacity(h))} : \E r \in {CoreEncode(core, h, output, need)} :
              /\ handed' = h
              /\ coreRes' = [ok |-> r.ok, len |-> r.len, err |-> r.err]
              /\ coreBuf' = r.buf
              /\ out' = IF r.ok THEN OnEncodeOk(r.buf, r.len) ELSE OnEncodeErr(r.buf)
        /\ op' = "encode"
        /\ input' = [samples |-> samples]
        /\ calls' = calls + 1
        /\ UNCHANGED <<kind, core, sample_rate, channels, newRes>>
        /\ UNCHANGED threadVars

---------------------------------------------------------------------------
(* Specification of one codec instance *)

Threads == 1..NumThreads

ThreadsIdle ==
    /\ owner = 1
    /\ sharedRefs = {}
    /\ mutRef = {}
    /\ calling = {}
    /\ reading = {}

NoCodec ==
    /\ kind = "none"
    /\ core = NoCore
    /\ sample_rate = 0
    /\ channels = 0
    /\ calls = 0
    /\ op = "init"
    /\ input = [none |-> TRUE]
    /\ newRes = "none"
    /\ handed = <<>>
    /\ coreRes = NoRes
    /\ coreBuf = <<>>
    /\ out = <<>>

Init == NoCodec /\ ThreadsIdle

Next ==
    \/ NewDecoder
    \/ NewEncoder
    \/ Decode
    \/ Encode

Spec == Init /\ [][Next]_vars

---------------------------------------------------------------------------
(* Access to one instance from several threads *)

\* exclusive access (&mut): the holder of the exclusive reference, or the owner while
\* nothing is borrowed
HasExclusive(t) ==
    \/ mutRef = {t}
    \/ owner = t /\ mutRef = {} /\ sharedRefs = {}

\* shared access (&): a shared reference, or the owner while no exclusive reference is
\* out, or a reborrow of the exclusive reference
HasShared(t) ==
    \/ t \in sharedRefs
    \/ owner = t /\ mutRef = {}
    \/ mutRef = {t}

\* receiver of decode and encode: `&mut self`
CanCallShared(t) == HasShared(t)
CanCall(t) == HasExclusive(t)

\* receiver of sample_rate and channels: `&self`
CanRead(t) == HasShared(t)

Busy(t) == t \in calling \cup reading

\* Send: the instance is moved to another thread
Move(t) ==
    /\ t # owner
    /\ sharedRefs = {} /\ mutRef = {}
    /\ calling = {} /\ reading = {}
    /\ owner' = t
    /\ UNCHANGED <<sharedRefs, mutRef, calling, reading>>
    /\ UNCHANGED codecVars

\* Sync: the owner hands a shared reference to another thread
ShareRef(t) ==
    /\ t # owner /\ t \notin sharedRefs
    /\ mutRef = {}
    /\ ~Busy(owner)
    /\ sharedRefs' = sharedRefs \cup {t}
    /\ UNCHANGED <<owner, mutRef, calling, reading>>
    /\ UNCHANGED codecVars

DropRef(t) ==
    /\ t \in sharedRefs
    /\ ~Busy(t)
    /\ sharedRefs' = sharedRefs \ {t}
    /\ UNCHANGED <<owner, mutRef, calling, reading>>
    /\ UNCHANGED codecVars

\* Send: the owner lends the exclusive reference to another thread
LendMut(t) ==
    /\ t # owner
    /\ mutRef = {} /\ sharedRefs = {}
    /\ ~Busy(owner)
    /\ mutRef' = {t}
    /\ UNCHANGED <<owner, sharedRefs, calling, reading>>
    /\ UNCHANGED codecVars

ReturnMut(t) ==
    /\ mutRef = {t}
    /\ ~Busy(t)
    /\ mutRef' = {}
    /\ UNCHANGED <<owner, sharedRefs, calling, reading>>
    /\ UNCHANGED codecVars

\* a thread enters decode / encode
BeginCall(t) ==
    /\ ~Busy(t)
    /\ CanCall(t)
    /\ calling' = calling \cup {t}
    /\ UNCHANGED <<owner, sharedRefs, mutRef, reading>>
    /\ UNCHANGED codecVars

EndCall(t) ==
    /\ t \in calling
    /\ calling' = calling \ {t}
    /\ UNCHANGED <<owner, sharedRefs, mutRef, reading>>
    /\ UNCHANGED codecVars

\* a thread enters sample_rate() / channels()
BeginRead(t) ==
    /\ ~Busy(t)
    /\ CanRead(t)
    /\ reading' = reading \cup {t}
    /\ UNCHANGED <<owner, sharedRefs, mutRef, calling>>
    /\ UNCHANGED codecVars

EndRead(t) ==
    /\ t \in reading
    /\ reading' = reading \ {t}
    /\ UNCHANGED <<owner, sharedRefs, mutRef, calling>>
    /\ UNCHANGED codecVars

\* the instance new_default() builds: 48 kHz, stereo
DefaultCodec ==
    /\ kind \in {"decoder", "encoder"}
    /\ core = [rate |-> SampleRateEnum(48000), channels |-> ChannelsEnum(2)]
    /\ sample_rate = 48000
    /\ channels = 2
    /\ calls = 0
    /\ op = "new"
    /\ input = [rate |-> 48000, channels |-> 2]
    /\ newRes = "Ok"
    /\ handed = <<>>
    /\ coreRes = [ok |-> TRUE, len |-> 0, err |-> "none"]
    /\ coreBuf = <<>>
    /\ out = <<>>

ThreadInit == DefaultCodec /\ ThreadsIdle

ThreadNext ==
    \E t \in Threads :
        \/ Move(t)
        \/ ShareRef(t)
        \/ DropRef(t)
        \/ LendMut(t)
        \/ ReturnMut(t)
        \/ BeginCall(t)
        \/ EndCall(t)
        \/ BeginRead(t)
        \/ EndRead(t)

SpecThreads == ThreadInit /\ [][ThreadNext]_vars

---------------------------------------------------------------------------
(* Properties *)

IsPcm(buf) == \A i \in 1..Len(buf) : buf[i] \in I16Min..I16Max

GoodParameters(args) == args.rate \in SupportedRates /\ args.channels \in {1, 2}

\* C1: decode always returns a PCM buffer, and whenever the native decode reports an
\* error the returned buffer is empty, never the scratch buffer or a part of it.
DecodeNeverFails ==
    op = "decode" =>
        /\ IsPcm(out)
        /\ ~coreRes.ok => Len(out) = 0

\* C1 witness: a malformed payload, decoded after an earlier call on the same decoder,
\* yields the empty buffer.
DecodeNeverFailsWitness ==
    /\ op = "decode" /\ calls >= 2
    /\ input.kind = "malformed"
    /\ ~coreRes.ok
    /\ Len(coreBuf) = MaxSamples
    /\ out = <<>>

\* C2: a successful decode reporting `frames` samples per channel returns frames * C
\* samples, C being channels().
DecodeLengthIsFramesTimesChannels ==
    (op = "decode" /\ coreRes.ok) => Len(out) = coreRes.len * channels

\* C3: sample_rate() equals the rate the native codec was configured with, whatever
\* sample_rate argument the instance was constructed with.
SampleRateIsCoreRate ==
    kind # "none" => sample_rate = core.rate

\* C4: encode hands a stereo native codec the input with every sample duplicated into
\* both channels, and a mono native codec the input unchanged.
StereoCoreGetsDuplicatedInput ==
    op = "encode" =>
        LET s == input.samples
        IN IF core.channels = 2
             THEN /\ Len(handed) = 2 * Len(s)
                  /\ \A i \in 1..Len(s) : handed[2 * i - 1] = s[i] /\ handed[2 * i] = s[i]
             ELSE handed = s

\* C5: the stereo downmix yields one sample per L/R pair, equal to (L + R) / 2 with the
\* quotient truncated toward zero; the sum fits 32 bits and the result fits 16 bits.
DownmixIsAverage ==
    (op = "decode" /\ coreRes.ok /\ channels = 2) =>
        /\ Len(out) = coreRes.len
        /\ \A k \in 1..Len(out) :
              LET l == coreBuf[2 * k - 1]
                  r == coreBuf[2 * k]
              IN /\ l + r \in I32Min..I32Max
                 /\ out[k] = TruncDiv(l + r, 2)
                 /\ out[k] \in I16Min..I16Max

\* C5 witness: a downmix that met the pairs (MIN, MIN), (MAX, MAX), (MIN, MAX) and (-1, 0).
DownmixIsAverageWitness ==
    /\ op = "decode" /\ coreRes.ok /\ channels = 2
    /\ \E k \in 1..Len(out) :
          coreBuf[2 * k - 1] = I16Min /\ coreBuf[2 * k] = I16Min /\ out[k] = I16Min
    /\ \E k \in 1..Len(out) :
          coreBuf[2 * k - 1] = I16Max /\ coreBuf[2 * k] = I16Max /\ out[k] = I16Max
    /\ \E k \in 1..Len(out) :
          coreBuf[2 * k - 1] = I16Min /\ coreBuf[2 * k] = I16Max /\ out[k] = 0
    /\ \E k \in 1..Len(out) :
          coreBuf[2 * k - 1] = -1 /\ coreBuf[2 * k] = 0 /\ out[k] = 0

\* C6: encode returns the empty buffer when the native encode reports an error, and
\* otherwise exactly the first len bytes the codec wrote.
EncodeErrEmptyElsePacket ==
    op = "encode" =>
        IF coreRes.ok
          THEN /\ Len(out) = coreRes.len
               /\ \A i \in 1..Len(out) : out[i] = coreBuf[i]
          ELSE out = <<>>

\* C6 witness: a stereo encoder returned a packet shorter than the output buffer.
EncodeErrEmptyElsePacketWitness ==
    /\ op = "encode" /\ channels = 2
    /\ coreRes.ok
    /\ 0 < coreRes.len /\ coreRes.len < Len(coreBuf)
    /\ Len(out) = coreRes.len

\* C7: the constructors return Ok only for a sample_rate in {8000, 12000, 16000,
\* 24000, 48000} and channels in {1, 2}, and Err for every other argument.
BadParametersRejected ==
    op = "new" => (newRes = "Ok" => GoodParameters(input))

\* C7 as amended: the constructors reject no argument: they return Err exactly when the
\* native constructor fails, and otherwise build an instance whose codec runs at the
\* given rate when it is supported and at 48000 Hz when it is not, mono when channels
\* is 1 and stereo for every other channels value.
NewDefaultsParameters ==
    op = "new" =>
        /\ newRes = "Err" <=> ~coreRes.ok
        /\ newRes = "Ok" =>
              /\ kind \in {"decoder", "encoder"}
              /\ core.rate = IF input.rate \in SupportedRates THEN input.rate ELSE 48000
              /\ core.channels = IF input.channels = 1 THEN 1 ELSE 2

\* C7 witness: an instance built from an unsupported rate and an unsupported channel count.
NewDefaultsParametersWitness ==
    /\ op = "new" /\ newRes = "Ok"
    /\ input.rate \notin SupportedRates
    /\ input.channels \notin {1, 2}
    /\ core = [rate |-> 48000, channels |-> 2]

\* C8: at most one thread is inside decode / encode of the instance at any time, and a
\* thread inside one holds exclusive access; a shared reference admits only
\* sample_rate() and channels().
OneCallAtATime ==
    /\ Cardinality(calling) <= 1
    /\ \A t \in calling : HasExclusive(t)

\* C8 witness: the instance was moved to another thread, which lent it on to a third, and
\* that thread is inside decode / encode.
OneCallAtATimeWitness ==
    \E t \in Threads :
        /\ calling = {t}
        /\ mutRef = {t}
        /\ owner \notin {1, t}

\* C9: the scratch buffer holds the longest Opus packet at every supported rate and
\* channel count; the count used to truncate never exceeds the scratch buffer nor what
\* the codec wrote, and the returned PCM has at most 11520 samples (5760 downmixed).
ScratchHoldsMaxFrame ==
    /\ \A r \in SupportedRates, c \in {1, 2} :
          (r \div 400) * MaxFrameUnits * c <= MaxSamples
    /\ (op = "decode" /\ coreRes.ok) =>
          /\ coreRes.len * channels <= MaxSamples
          /\ coreRes.len * channels <= coreRes.len * core.channels
          /\ Len(out) <= IF channels = 2 THEN MaxSamples \div 2 ELSE MaxSamples

\* C9 witness: a 120 ms stereo packet at 48 kHz fills the scratch buffer.
ScratchHoldsMaxFrameWitness ==
    /\ op = "decode" /\ coreRes.ok
    /\ core = [rate |-> 48000, channels |-> 2]
    /\ input.units = MaxFrameUnits
    /\ coreRes.len * channels = MaxSamples
    /\ Len(out) = MaxSamples \div 2

\* C10: the output buffer has as many bytes as the sample buffer handed to the codec, so
\* a packet has at most n bytes from a mono codec and 2n from a stereo one; an empty
\* input and a packet that does not fit both yield the empty packet.
EncodedPacketBounded ==
    op = "encode" =>
        LET n == Len(input.samples)
        IN /\ Len(coreBuf) = Len(handed)
           /\ Len(out) <= Len(handed)
           /\ core.channels = 1 => Len(out) <= n
           /\ core.channels = 2 => Len(out) <= 2 * n
           /\ n = 0 => out = <<>>
           /\ coreRes.err = "BufferTooSmall" => out = <<>>

\* C10 witness: a frame of valid size whose packet does not fit yields the empty packet.
EncodedPacketBoundedWitness ==
    /\ op = "encode"
    /\ Len(input.samples) > 0
    /\ coreRes.err = "BufferTooSmall"
    /\ out = <<>>

====
